---- MODULE Spec2Model ----
(***************************************************************************)
(* A model of scripts/train_special_model.py: the merge of the manual      *)
(* seeds with the feedback records, the label filter, feature extraction,  *)
(* standardization, the gradient-descent loop and the write of the model.  *)
(*                                                                         *)
(* Numbers.  A Python float is a binary floating-point number, modelled as *)
(* [m |-> mantissa, e |-> exponent] with value m * 2^e, |m| < 2^MantBits,  *)
(* every operation rounded to nearest, ties to even, as IEEE 754 does.     *)
(* The exponent range is not bounded (no overflow, no underflow).          *)
(*                                                                         *)
(* Python values.  A value read from JSON is a tagged record: a float      *)
(* [m, e], an int [i], a bool [b], a str [s] or None [none].  A dict is a  *)
(* function whose DOMAIN is its key set; the one dict whose order matters  *)
(* (build_dataset's `combined`) is a sequence of <<key, value>> pairs.     *)
(***************************************************************************)
EXTENDS Integers, Sequences, FiniteSets, TLC

\* Bits of mantissa of the floating-point format.
MantBits == 7

\* Longest tail of free feedback records the merge is explored with.
MaxEntries == 3

\* Most rows of a feature matrix handed directly to the standardizer/trainer.
MaxRows == 3

----------------------------------------------------------------------------
(* Floating point *)

RECURSIVE Pow2(_)
Pow2(n) == IF n <= 0 THEN 1 ELSE 2 * Pow2(n - 1)

Abs(x) == IF x < 0 THEN -x ELSE x

RECURSIVE BitLen(_)
BitLen(n) == IF n = 0 THEN 0 ELSE 1 + BitLen(n \div 2)

Fl(m, e) == [m |-> m, e |-> e]

FZero == Fl(0, 0)

\* The float nearest to m * 2^e, ties to even.
RoundInt(m, e) ==
    LET a == Abs(m)
        s == BitLen(a) - MantBits
        sg == IF m < 0 THEN -1 ELSE 1
    IN  IF m = 0 THEN FZero
        ELSE IF s <= 0 THEN Fl(m * Pow2(-s), e + s)
        ELSE LET q == a \div Pow2(s)
                 r == a % Pow2(s)
                 h == Pow2(s - 1)
                 q1 == IF r > h \/ (r = h /\ q % 2 = 1) THEN q + 1 ELSE q
             IN  IF q1 = Pow2(MantBits)
                 THEN Fl(sg * Pow2(MantBits - 1), e + s + 1)
                 ELSE Fl(sg * q1, e + s)

IntToFloat(n) == RoundInt(n, 0)

FOne == IntToFloat(1)

FNeg(a) == Fl(-a.m, a.e)

\* a + b.  An operand more than MantBits + 1 binary places below the other
\* is under a quarter of its last place and cannot change the rounded sum.
FAdd(a, b) ==
    LET d == a.e - b.e
    IN  IF a.m = 0 THEN b
        ELSE IF b.m = 0 THEN a
        ELSE IF d > MantBits + 1 THEN a
        ELSE IF -d > MantBits + 1 THEN b
        ELSE IF d >= 0 THEN RoundInt(a.m * Pow2(d) + b.m, b.e)
        ELSE RoundInt(a.m + b.m * Pow2(-d), a.e)

FSub(a, b) == FAdd(a, FNeg(b))

FMul(a, b) == RoundInt(a.m * b.m, a.e + b.e)

\* n / d * 2^e for integers n, d with d > 0: the quotient is taken to at
\* least MantBits + 2 bits and a sticky bit records a non-zero remainder.
RECURSIVE ScaleFor(_, _, _)
ScaleFor(n, d, k) ==
    IF BitLen((n * Pow2(k)) \div d) >= MantBits + 2 THEN k ELSE ScaleFor(n, d, k + 1)

RoundRat(n, d, e) ==
    LET a == Abs(n)
        k == ScaleFor(a, d, 0)
        q == (a * Pow2(k)) \div d
        r == (a * Pow2(k)) % d
        sg == IF n < 0 THEN -1 ELSE 1
    IN  IF n = 0 THEN FZero
        ELSE RoundInt(sg * (2 * q + (IF r = 0 THEN 0 ELSE 1)), e - k - 1)

\* a / b, b not zero (Python raises ZeroDivisionError on a zero divisor).
FDiv(a, b) ==
    LET sg == IF b.m < 0 THEN -1 ELSE 1
    IN  RoundRat(sg * a.m, Abs(b.m), a.e - b.e)

RECURSIVE ISqrt(_)
ISqrt(n) ==
    IF n < 2 THEN n
    ELSE LET s == 2 * ISqrt(n \div 4)
         IN  IF (s + 1) * (s + 1) <= n THEN s + 1 ELSE s

\* math.sqrt(a), a > 0.
FSqrt(a) ==
    LET k == IF (a.e - (MantBits + 2)) % 2 = 0 THEN MantBits + 2 ELSE MantBits + 3
        x == a.m * Pow2(k)
        r == ISqrt(x)
    IN  RoundInt(2 * r + (IF r * r = x THEN 0 ELSE 1), ((a.e - k) \div 2) - 1)

\* A decimal literal n/d of the source or of the JSON text, read as a float.
Lit(n, d) == RoundRat(n, d, 0)

----------------------------------------------------------------------------
(* Python values and dicts *)

PStr(s) == [s |-> s]

PInt(i) == [i |-> i]

PBool(b) == [b |-> b]

PNone == [none |-> TRUE]

EmptyDict == [k \in {} |-> PNone]

\* d.get(k, default)
Get(d, k, default) == IF k \in DOMAIN d THEN d[k] ELSE default

\* float(x) succeeds on a float, an int and a bool; a str that is no number
\* (the only kind of str modelled) and None raise.
CanFloat(x) == DOMAIN x \cap {"m", "i", "b"} # {}

\* float(x)
PyFloat(x) ==
    IF "m" \in DOMAIN x THEN x
    ELSE IF "i" \in DOMAIN x THEN IntToFloat(x.i)
    ELSE IF x.b THEN FOne ELSE FZero

\* The truth value of x in a condition.
Truthy(x) ==
    IF "b" \in DOMAIN x THEN x.b
    ELSE IF "m" \in DOMAIN x THEN x.m # 0
    ELSE IF "i" \in DOMAIN x THEN x.i # 0
    ELSE IF "s" \in DOMAIN x THEN x.s # ""
    ELSE FALSE

\* An insertion-ordered dict as a sequence of <<key, value>> pairs.
KeyIndex(d, k) ==
    IF \E i \in 1..Len(d) : d[i][1] = k
    THEN CHOOSE i \in 1..Len(d) : d[i][1] = k
    ELSE 0

\* d.setdefault(k, v) in place of d[k] = v: the first value of a key stays.
DictSetKeepFirst(d, k, v) ==
    LET i == KeyIndex(d, k)
    IN  IF i = 0 THEN Append(d, <<k, v>>) ELSE d

\* del d[k] before d[k] = v: a key written again moves to the end.
DictSetMoveToEnd(d, k, v) ==
    Append(SelectSeq(d, LAMBDA kv : kv[1] # k), <<k, v>>)

\* d[k] = v: a key already present keeps its place and takes the new value;
\* a new key goes to the end.
DictSet(d, k, v) ==
    LET i == KeyIndex(d, k)
    IN  IF i = 0 THEN Append(d, <<k, v>>) ELSE [d EXCEPT ![i] = <<k, v>>]

\* list(d.values())
DictValues(d) == [i \in 1..Len(d) |-> d[i][2]]

----------------------------------------------------------------------------
(* The manual seeds and the feature order *)

MANUAL_SEEDS == <<
    [id |-> "manual-1", label |-> PStr("special"),
     params |-> [du |-> Lit(41, 1000), dv |-> Lit(28, 1000), feed |-> Lit(15, 1000),
                 kill |-> Lit(44, 1000), dt |-> Lit(2000, 1000), threshold |-> Lit(210, 1000),
                 contrast |-> Lit(2450, 1000), gamma |-> Lit(400, 1000),
                 invert |-> PBool(FALSE)],
     metrics |-> [activity |-> Lit(0, 1000), entropy |-> Lit(340, 1000),
                  stdU |-> Lit(262, 1000), stdV |-> Lit(74, 1000)]],
    [id |-> "manual-2", label |-> PStr("special"),
     params |-> [du |-> Lit(1000, 1000), dv |-> Lit(266, 1000), feed |-> Lit(100, 1000),
                 kill |-> Lit(54, 1000), dt |-> Lit(1000, 1000), threshold |-> Lit(200, 1000),
                 contrast |-> Lit(1500, 1000), gamma |-> Lit(1100, 1000),
                 invert |-> PBool(FALSE)],
     metrics |-> [activity |-> Lit(0, 1000), entropy |-> Lit(840, 1000),
                  stdU |-> Lit(208, 1000), stdV |-> Lit(140, 1000)]],
    [id |-> "manual-3", label |-> PStr("special"),
     params |-> [du |-> Lit(1000, 1000), dv |-> Lit(306, 1000), feed |-> Lit(23, 1000),
                 kill |-> Lit(60, 1000), dt |-> Lit(1000, 1000), threshold |-> Lit(200, 1000),
                 contrast |-> Lit(1500, 1000), gamma |-> Lit(1100, 1000),
                 invert |-> PBool(FALSE)],
     metrics |-> [activity |-> Lit(0, 1000), entropy |-> Lit(1350, 1000),
                  stdU |-> Lit(123, 1000), stdV |-> Lit(125, 1000)]],
    [id |-> "manual-4", label |-> PStr("special"),
     params |-> [du |-> Lit(547, 1000), dv |-> Lit(89, 1000), feed |-> Lit(84, 1000),
                 kill |-> Lit(77, 1000), dt |-> Lit(1500, 1000), threshold |-> Lit(200, 1000),
                 contrast |-> Lit(5000, 1000), gamma |-> Lit(200, 1000),
                 invert |-> PBool(FALSE)],
     metrics |-> [activity |-> Lit(0, 1000), entropy |-> Lit(600, 1000),
                  stdU |-> Lit(201, 1000), stdV |-> Lit(169, 1000)]],
    [id |-> "manual-5", label |-> PStr("special"),
     params |-> [du |-> Lit(621, 1000), dv |-> Lit(70, 1000), feed |-> Lit(100, 1000),
                 kill |-> Lit(70, 1000), dt |-> Lit(1500, 1000), threshold |-> Lit(200, 1000),
                 contrast |-> Lit(5000, 1000), gamma |-> Lit(200, 1000),
                 invert |-> PBool(FALSE)],
     metrics |-> [activity |-> Lit(0, 1000), entropy |-> Lit(1240, 1000),
                  stdU |-> Lit(264, 1000), stdV |-> Lit(250, 1000)]],
    [id |-> "manual-6", label |-> PStr("special"),
     params |-> [du |-> Lit(722, 1000), dv |-> Lit(80, 1000), feed |-> Lit(20, 1000),
                 kill |-> Lit(56, 1000), dt |-> Lit(1500, 1000), threshold |-> Lit(160, 1000),
                 contrast |-> Lit(5000, 1000), gamma |-> Lit(200, 1000),
                 invert |-> PBool(TRUE)],
     metrics |-> [activity |-> Lit(0, 1000), entropy |-> Lit(2610, 1000),
                  stdU |-> Lit(116, 1000), stdV |-> Lit(329, 1000)]],
    [id |-> "manual-7", label |-> PStr("special"),
     params |-> [du |-> Lit(621, 1000), dv |-> Lit(70, 1000), feed |-> Lit(3, 1000),
                 kill |-> Lit(21, 1000), dt |-> Lit(1500, 1000), threshold |-> Lit(200, 1000),
                 contrast |-> Lit(5000, 1000), gamma |-> Lit(200, 1000),
                 invert |-> PBool(FALSE)],
     metrics |-> [activity |-> Lit(0, 1000), entropy |-> Lit(0, 1000),
                  stdU |-> Lit(0, 1000), stdV |-> Lit(0, 1000)]],
    [id |-> "manual-8", label |-> PStr("special"),
     params |-> [du |-> Lit(43, 1000), dv |-> Lit(9, 1000), feed |-> Lit(2, 1000),
                 kill |-> Lit(21, 1000), dt |-> Lit(1500, 1000), threshold |-> Lit(200, 1000),
                 contrast |-> Lit(5000, 1000), gamma |-> Lit(200, 1000),
                 invert |-> PBool(FALSE)],
     metrics |-> [activity |-> Lit(0, 1000), entropy |-> Lit(730, 1000),
                  stdU |-> Lit(339, 1000), stdV |-> Lit(74, 1000)]],
    [id |-> "manual-9", label |-> PStr("special"),
     params |-> [du |-> Lit(43, 1000), dv |-> Lit(9, 1000), feed |-> Lit(1, 1000),
                 kill |-> Lit(26, 1000), dt |-> Lit(2000, 1000), threshold |-> Lit(200, 1000),
                 contrast |-> Lit(5000, 1000), gamma |-> Lit(200, 1000),
                 invert |-> PBool(FALSE)],
     metrics |-> [activity |-> Lit(0, 1000), entropy |-> Lit(210, 1000),
                  stdU |-> Lit(272, 1000), stdV |-> Lit(44, 1000)]] >>

\* The feature names with stdU and stdV exchanged.
FEATURES_swapped ==
    << "activity", "entropy", "stdV", "stdU", "feed", "kill", "threshold",
       "dt", "contrast", "gamma", "invert" >>

FEATURES ==
    << "activity", "entropy", "stdU", "stdV", "feed", "kill", "threshold",
       "dt", "contrast", "gamma", "invert" >>

----------------------------------------------------------------------------
(* build_dataset and extract_features *)

\* The `for entry in ...: combined[entry['id']] = entry` loop from index i on.
RECURSIVE MergeFrom(_, _, _)
MergeFrom(combined, entries, i) ==
    IF i > Len(entries) THEN combined
    ELSE MergeFrom(DictSet(combined, entries[i].id, entries[i]), entries, i + 1)

\* entry['id'] raises KeyError on a record without an id.
BuildRaises(entries) == \E i \in 1..Len(entries) : "id" \notin DOMAIN entries[i]

build_dataset(entries) ==
    DictValues(MergeFrom(MergeFrom(<<>>, MANUAL_SEEDS, 1), entries, 1))

MetricsOf(entry) == Get(entry, "metrics", EmptyDict)

ParamsOf(entry) == Get(entry, "params", EmptyDict)

\* extract_features with feed and kill read in the other order.
extract_features_swapped(entry) ==
    LET metrics == Get(entry, "metrics", EmptyDict)
        params == Get(entry, "params", EmptyDict)
    IN  << PyFloat(Get(metrics, "activity", FZero)),
           PyFloat(Get(metrics, "entropy", FZero)),
           PyFloat(Get(metrics, "stdU", FZero)),
           PyFloat(Get(metrics, "stdV", FZero)),
           PyFloat(Get(params, "kill", FZero)),
           PyFloat(Get(params, "feed", FZero)),
           PyFloat(Get(params, "threshold", FZero)),
           PyFloat(Get(params, "dt", FOne)),
           PyFloat(Get(params, "contrast", FOne)),
           PyFloat(Get(params, "gamma", FOne)),
           IF Truthy(Get(params, "invert", PNone)) THEN FOne ELSE FZero >>

extract_features(entry) ==
    LET metrics == MetricsOf(entry)
        params == ParamsOf(entry)
    IN  << PyFloat(Get(metrics, "activity", FZero)),
           PyFloat(Get(metrics, "entropy", FZero)),
           PyFloat(Get(metrics, "stdU", FZero)),
           PyFloat(Get(metrics, "stdV", FZero)),
           PyFloat(Get(params, "feed", FZero)),
           PyFloat(Get(params, "kill", FZero)),
           PyFloat(Get(params, "threshold", FZero)),
           PyFloat(Get(params, "dt", FOne)),
           PyFloat(Get(params, "contrast", FOne)),
           PyFloat(Get(params, "gamma", FOne)),
           IF Truthy(Get(params, "invert", PNone)) THEN FOne ELSE FZero >>

\* Whether one of the ten float(...) calls of extract_features raises.
ExtractRaises(entry) ==
    \/ \E k \in {"activity", "entropy", "stdU", "stdV"} :
          k \in DOMAIN MetricsOf(entry) /\ ~CanFloat(MetricsOf(entry)[k])
    \/ \E k \in {"feed", "kill", "threshold", "dt", "contrast", "gamma"} :
          k \in DOMAIN ParamsOf(entry) /\ ~CanFloat(ParamsOf(entry)[k])

----------------------------------------------------------------------------
(* The label filter of main *)

LabelOf(entry) == Get(entry, "label", PNone)

\* A filter that keeps only the positive class.
ValidLabelsSpecialOnly == {PStr("special")}

ValidLabels == {PStr("special"), PStr("normal")}

\* The loop of main over the merged dataset from index i on: a record whose
\* label is not valid is skipped, any other adds a row to X and a class to y.
RECURSIVE FilterFrom(_, _, _, _)
FilterFrom(ds, i, Xs, ys) ==
    IF i > Len(ds) THEN [X |-> Xs, y |-> ys, err |-> "none"]
    ELSE IF LabelOf(ds[i]) \notin ValidLabels THEN FilterFrom(ds, i + 1, Xs, ys)
    ELSE IF ExtractRaises(ds[i]) THEN [X |-> Xs, y |-> ys, err |-> "ValueError"]
    ELSE FilterFrom(ds, i + 1, Append(Xs, extract_features(ds[i])),
                    Append(ys, IF LabelOf(ds[i]) = PStr("special") THEN 1 ELSE 0))

----------------------------------------------------------------------------
(* Standardization (main, "standardize features") *)

Max(a, b) == IF a >= b THEN a ELSE b

\* sum(values): the int 0, then each value added left to right.
RECURSIVE SumFrom(_, _, _)
SumFrom(values, i, acc) ==
    IF i > Len(values) THEN acc ELSE SumFrom(values, i + 1, FAdd(acc, values[i]))

FSum(values) == SumFrom(values, 1, FZero)

\* values = [row[j] for row in X]
Column(Xs, j) == [i \in 1..Len(Xs) |-> Xs[i][j]]

\* mean = sum(values) / n_samples
MeanOf(values) == FDiv(FSum(values), IntToFloat(Len(values)))

\* variance = sum((v - mean) ** 2 for v in values) / max(1, n_samples - 1)
VarianceOf(values) ==
    LET mean == MeanOf(values)
        sq == [i \in 1..Len(values) |->
                 FMul(FSub(values[i], mean), FSub(values[i], mean))]
    IN  FDiv(FSum(sq), IntToFloat(Max(1, Len(values) - 1)))

\* std = math.sqrt(variance) if variance > 0 else 1.0
StdOf(values) ==
    LET variance == VarianceOf(values)
    IN  IF variance.m > 0 THEN FSqrt(variance) ELSE FOne

\* X[i][j] = (X[i][j] - mean) / std, for every column j and row i
Rescaled(Xs, ms, ss) ==
    [i \in 1..Len(Xs) |->
        [j \in 1..Len(Xs[1]) |-> FDiv(FSub(Xs[i][j], ms[j]), ss[j])]]

----------------------------------------------------------------------------
(* State *)

VARIABLES
    pc,          \* the statement the run is at
    err,         \* the exception that ended the run, "none" while there is none
    feedback,    \* the feedback file: whether it exists and what it holds
    output,      \* the output file: whether it exists, its content, writes so far
    entries,     \* main: the parsed feedback records
    dataset,     \* main: build_dataset's result
    X, y,        \* main: feature rows and classes (X is standardized in place)
    X0,          \* X as the label filter left it, before standardization
    means, stds, \* main: the means and stds recorded per column
    entry,       \* the record handed to extract_features
    entry0,      \* that record as it was at the call
    features,    \* extract_features' result
    epochs,      \* train_logistic_regression: the epochs argument
    lr,          \* the lr argument, multiplied in place by the decay
    lr0,         \* lr as it was at the call
    epoch,       \* the next index of `for epoch in range(epochs)`
    n_samples, n_features,
    weights, bias, grad_w, grad_b,
    lrUsed       \* the lr the last parameter update multiplied by

vars == << pc, err, feedback, output, entries, dataset, X, y, X0, means, stds,
           entry, entry0, features, epochs, lr, lr0, epoch, n_samples,
           n_features, weights, bias, grad_w, grad_b, lrUsed >>

dataVars == << entries, dataset, X, y, X0, means, stds >>

featVars == << entry, entry0, features >>

trainVars == << epochs, lr, lr0, epoch, n_samples, n_features, weights, bias,
                grad_w, grad_b, lrUsed >>

\* Values of the variables a run has not assigned yet.
Unset == <<>>

DataUnset ==
    /\ entries = Unset /\ dataset = Unset /\ X = Unset /\ y = Unset
    /\ X0 = Unset /\ means = Unset /\ stds = Unset

FeatUnset == entry = Unset /\ entry0 = Unset /\ features = Unset

TrainUnset ==
    /\ epochs = 0 /\ lr = FZero /\ lr0 = FZero /\ epoch = 0
    /\ n_samples = 0 /\ n_features = 0
    /\ weights = Unset /\ bias = 0 /\ grad_w = Unset /\ grad_b = 0
    /\ lrUsed = FZero

NoFile == [exists |-> FALSE, text |-> "none", data |-> Unset, name |-> "feedback.json"]

NoOutput == [exists |-> FALSE, writes |-> 0, model |-> Unset]

----------------------------------------------------------------------------
(* main, up to the call of the trainer *)

Raise(kind) == pc' = "error" /\ err' = kind

\* if not args.feedback_json.exists(): raise SystemExit(...)
CheckExists ==
    /\ pc = "exists"
    /\ IF feedback.exists THEN pc' = "load" /\ err' = err ELSE Raise("FileNotFound")
    /\ UNCHANGED << feedback, output, dataVars, featVars, trainVars >>

\* entries = json.loads(args.feedback_json.read_text())
LoadEntries ==
    /\ pc = "load"
    /\ IF feedback.text = "json"
       THEN pc' = "build" /\ err' = err /\ entries' = feedback.data
       ELSE Raise("JSONDecodeError") /\ entries' = entries
    /\ UNCHANGED << feedback, output, dataset, X, y, X0, means, stds,
                    featVars, trainVars >>

\* dataset = build_dataset(entries)
BuildDataset ==
    /\ pc = "build"
    /\ IF BuildRaises(entries)
       THEN Raise("KeyError") /\ dataset' = dataset
       ELSE pc' = "filter" /\ err' = err /\ dataset' = build_dataset(entries)
    /\ UNCHANGED << feedback, output, entries, X, y, X0, means, stds,
                    featVars, trainVars >>

\* X, y = [], [] and the loop over dataset that fills them
FilterRows ==
    /\ pc = "filter"
    /\ LET r == FilterFrom(dataset, 1, << >>, << >>)
       IN  /\ X' = r.X /\ y' = r.y /\ X0' = r.X
           /\ IF r.err = "none" THEN pc' = "check" /\ err' = err ELSE Raise(r.err)
    /\ UNCHANGED << feedback, output, entries, dataset, means, stds,
                    featVars, trainVars >>

\* A test of emptiness that never fires.
NoRowsNever(Xs) == FALSE

\* if not X
NoRows(Xs) == Xs = << >>

\* The check of an empty X with the output file opened before it.
CheckEmptyAfterOpen ==
    /\ pc = "check"
    /\ IF X = << >> THEN Raise("NoValidData") ELSE pc' = "standardize" /\ err' = err
    /\ output' = [output EXCEPT !.exists = TRUE, !.writes = @ + 1]
    /\ UNCHANGED << feedback, dataVars, featVars, trainVars >>

\* if not X: raise SystemExit('No valid data to train on')
CheckEmpty ==
    /\ pc = "check"
    /\ IF NoRows(X) THEN Raise("NoValidData") ELSE pc' = "standardize" /\ err' = err
    /\ UNCHANGED << feedback, output, dataVars, featVars, trainVars >>

\* The standardization loop; len(X[0]) raises IndexError on an empty X.
Standardize ==
    /\ pc = "standardize"
    /\ IF X = << >>
       THEN Raise("IndexError") /\ UNCHANGED << X, means, stds >>
       ELSE /\ pc' = "call" /\ err' = err
            /\ means' = [j \in 1..Len(X[1]) |-> MeanOf(Column(X, j))]
            /\ stds' = [j \in 1..Len(X[1]) |-> StdOf(Column(X, j))]
            /\ X' = Rescaled(X, means', stds')
    /\ UNCHANGED << feedback, output, entries, dataset, y, X0, featVars, trainVars >>

MainEpochs == 6000

MainRate == Lit(8, 100)

\* model = train_logistic_regression(X, y, epochs=6000, lr=0.08): the call
CallTrain ==
    /\ pc = "call"
    /\ pc' = "train_init"
    /\ epochs' = MainEpochs /\ lr' = MainRate /\ lr0' = MainRate
    /\ UNCHANGED << err, feedback, output, dataVars, featVars, epoch, n_samples,
                    n_features, weights, bias, grad_w, grad_b, lrUsed >>

----------------------------------------------------------------------------
(* train_logistic_regression *)
(*                                                                         *)
(* No test of the loop reads a weight, a gradient or a prediction: what    *)
(* each of these floats holds is kept as the number of terms added to it   *)
(* since it was last set to the literal 0.0 (0 is the value 0.0 itself).   *)
(* The learning rate is kept as the float it is.                           *)

DefaultEpochs == 5000

DefaultRate == Lit(5, 100)

DecayEvery == 1000

DecayFactor == Lit(9, 10)

ZeroVec(n) == [j \in 1..n |-> 0]

Min(a, b) == IF a <= b THEN a ELSE b

\* n_samples, n_features, weights = [0.0] * n_features, bias = 0.0
TrainInit ==
    /\ pc = "train_init"
    /\ IF X = << >>
       THEN /\ Raise("IndexError")
            /\ UNCHANGED << n_samples, n_features, weights, bias, epoch >>
       ELSE /\ pc' = "train_loop" /\ err' = err
            /\ n_samples' = Len(X)
            /\ n_features' = Len(X[1])
            /\ weights' = ZeroVec(Len(X[1]))
            /\ bias' = 0
            /\ epoch' = 0
    /\ UNCHANGED << feedback, output, dataVars, featVars, epochs, lr, lr0,
                    grad_w, grad_b, lrUsed >>

\* Accumulators that are set up once and never reset.
GradKeep(gw, gb, n) == [w |-> IF gw = Unset THEN ZeroVec(n) ELSE gw, b |-> gb]

\* grad_w = [0.0] * n_features; grad_b = 0.0, whatever they held before
GradStart(gw, gb, n) == [w |-> ZeroVec(n), b |-> 0]

\* for xi, yi in zip(X, y): grad_b += error; grad_w[j] += error * xi[j]
RECURSIVE Accumulate(_, _, _, _)
Accumulate(g, Xs, ys, i) ==
    IF i > Min(Len(Xs), Len(ys)) THEN g
    ELSE Accumulate([w |-> [j \in 1..Len(g.w) |-> g.w[j] + 1], b |-> g.b + 1],
                    Xs, ys, i + 1)

\* The decay test without `and epoch > 0`.
DecayDueFromZero(e) == e % DecayEvery = 0

\* if epoch % 1000 == 0 and epoch > 0
DecayDue(e) == e % DecayEvery = 0 /\ e > 0

\* One pass of the body of `for epoch in range(epochs)`.
TrainEpoch ==
    /\ pc = "train_loop"
    /\ epoch < epochs
    /\ LET g == Accumulate(GradStart(grad_w, grad_b, n_features), X, y, 1)
       IN  /\ grad_w' = g.w
           /\ grad_b' = g.b
           /\ bias' = bias + 1
           /\ weights' = [j \in 1..n_features |-> weights[j] + 1]
    /\ lrUsed' = lr
    /\ lr' = IF DecayDue(epoch) THEN FMul(lr, DecayFactor) ELSE lr
    /\ epoch' = epoch + 1
    /\ UNCHANGED << pc, err, feedback, output, dataVars, featVars, epochs, lr0,
                    n_samples, n_features >>

\* return {"weights": weights, "bias": bias}, once range(epochs) is used up
TrainReturn ==
    /\ pc = "train_loop"
    /\ epoch >= epochs
    /\ pc' = "trained"
    /\ UNCHANGED << err, feedback, output, dataVars, featVars, trainVars >>

----------------------------------------------------------------------------
(* main, after the trainer has returned *)

\* args.output.parent.mkdir(...); args.output.write_text(json.dumps({...}))
WriteModel ==
    /\ pc = "trained"
    /\ pc' = "done"
    /\ output' = [exists |-> TRUE,
                  writes |-> output.writes + 1,
                  model |-> [features |-> FEATURES,
                             weights |-> weights,
                             bias |-> bias,
                             means |-> means,
                             stds |-> stds,
                             trainedAt |-> feedback.name]]
    /\ UNCHANGED << err, feedback, dataVars, featVars, trainVars >>

\* def extract_features(entry), called on its own
Extract ==
    /\ pc = "extract"
    /\ IF ExtractRaises(entry)
       THEN Raise("ValueError") /\ features' = features
       ELSE pc' = "extracted" /\ err' = err /\ features' = extract_features(entry)
    /\ UNCHANGED << feedback, output, dataVars, entry, entry0, trainVars >>

----------------------------------------------------------------------------
(* Inputs *)

ParamsA ==
    [du |-> Lit(16, 100), dv |-> Lit(8, 100), feed |-> Lit(35, 1000),
     kill |-> Lit(65, 1000), dt |-> PInt(1), threshold |-> Lit(2, 10),
     contrast |-> Lit(3, 1), gamma |-> Lit(1, 1), invert |-> PBool(TRUE)]

MetricsA ==
    [activity |-> Lit(12, 100), entropy |-> Lit(9, 10), stdU |-> Lit(3, 10),
     stdV |-> Lit(1, 10)]

ParamsB ==
    [feed |-> Lit(5, 100), kill |-> Lit(6, 100), threshold |-> Lit(2, 10),
     gamma |-> Lit(2, 10)]

MetricsB == [entropy |-> Lit(1, 1)]

\* A feedback record; label "" stands for a record with no label key.
ExtRecord(id, label, v) ==
    [k \in (IF label = "" THEN {"id", "params", "metrics"}
                          ELSE {"id", "label", "params", "metrics"}) |->
        CASE k = "id" -> id
          [] k = "label" -> PStr(label)
          [] k = "params" -> (IF v = "A" THEN ParamsA ELSE ParamsB)
          [] OTHER -> (IF v = "A" THEN MetricsA ELSE MetricsB)]

SeqsUpTo(S, n) == UNION {[1..k -> S] : k \in 0..n}

\* The records the merge and the label filter are explored with.
DataPool ==
    {ExtRecord(id, lv[1], lv[2]) :
        id \in {"manual-2", "ext-1", "ext-2"},
        lv \in {<<"special", "A">>, <<"normal", "B">>, <<"bogus", "A">>, <<"", "B">>}}

\* Records that replace the first k manual seeds and carry the given label.
Overrides(k, label) == [i \in 1..k |-> ExtRecord(MANUAL_SEEDS[i].id, label, "B")]

\* A record whose feed is a str that float() rejects, and one with no id.
BadFieldRecord ==
    [id |-> "ext-1", label |-> PStr("special"),
     params |-> [feed |-> PStr("n/a")], metrics |-> MetricsA]

NoIdRecord == [label |-> PStr("special"), params |-> ParamsA, metrics |-> MetricsA]

\* The feedback lists main is run on.
MainLists ==
    {pre \o tail :
        pre \in {<< >>, Overrides(6, "bogus"), Overrides(9, "")},
        tail \in {<< >>,
                  <<ExtRecord("ext-1", "special", "A")>>,
                  <<ExtRecord("ext-1", "normal", "B")>>,
                  <<ExtRecord("ext-1", "bogus", "A")>>,
                  <<BadFieldRecord>>,
                  <<NoIdRecord>>}}

FeedbackFiles ==
    {NoFile, [NoFile EXCEPT !.exists = TRUE, !.text = "malformed"]}
    \cup {[NoFile EXCEPT !.exists = TRUE, !.text = "json", !.data = es] :
             es \in MainLists}

\* The output file before the run: absent, or left by an earlier run.
OutputsBefore == {NoOutput, [NoOutput EXCEPT !.exists = TRUE, !.model = "old"]}

\* The records extract_features is explored with (FeatRecordsOf): every subset of the four
\* metrics and of the six numeric params present, either mapping absent,
\* invert absent or one of four values, the values floats, ints or strs.
MetricKeys == {"activity", "entropy", "stdU", "stdV"}

NumParamKeys == {"feed", "kill", "threshold", "dt", "contrast", "gamma"}

Position(k) == CHOOSE i \in 1..Len(FEATURES) : FEATURES[i] = k

FieldValue(k, kind) ==
    CASE kind = "float" -> Lit(10 * Position(k) + 3, 100)
      [] kind = "int" -> PInt(Position(k) + 1)
      [] OTHER -> PStr("n/a")

MetricsDicts(kind) == {[k \in S |-> FieldValue(k, kind)] : S \in SUBSET MetricKeys}

ParamsDicts(kind) ==
    {[k \in S \cup {"du"} |-> IF k = "du" THEN Lit(1, 2) ELSE FieldValue(k, kind)] :
        S \in SUBSET NumParamKeys}
    \cup {[k \in S \cup {"invert"} |-> IF k = "invert" THEN inv ELSE FieldValue(k, kind)] :
             S \in SUBSET NumParamKeys,
             inv \in {PBool(TRUE), PBool(FALSE), PInt(1), PStr("")}}

FeatRecordsOf(kinds) ==
    UNION {
        {[id |-> "r", label |-> PStr("special"), params |-> p, metrics |-> m] :
            p \in ParamsDicts(kind), m \in MetricsDicts(kind)}
        \cup {[id |-> "r", label |-> PStr("special"), params |-> p] : p \in ParamsDicts(kind)}
        \cup {[id |-> "r", label |-> PStr("special"), metrics |-> m] : m \in MetricsDicts(kind)}
        \cup {[id |-> "r", label |-> PStr("special")]} :
        kind \in kinds}

\* The column values and matrices the standardizer is explored with.
StdValues == {FZero, Lit(2, 10), Lit(5, 1)}

StdMatrices(rows) == UNION {[1..n -> [1..2 -> StdValues]] : n \in 0..rows}

\* The calls of the trainer: the caller's and the default arguments, and
\* short runs around the first decays.
TrainCalls ==
    {<<e, MainRate>> : e \in {0, 1, 1000, 1001, 2001, MainEpochs}}
    \cup {<<DefaultEpochs, DefaultRate>>}

TrainMatrices(rows) == UNION {[1..n -> [1..f -> {FOne}]] : n \in 0..rows, f \in 1..2}

----------------------------------------------------------------------------
(* Specifications *)

\* A run of main.
Init ==
    /\ pc = "exists" /\ err = "none"
    /\ feedback \in FeedbackFiles
    /\ output \in OutputsBefore
    /\ DataUnset /\ FeatUnset /\ TrainUnset

Next ==
    \/ CheckExists \/ LoadEntries \/ BuildDataset \/ FilterRows \/ CheckEmpty
    \/ Standardize \/ CallTrain \/ TrainInit \/ TrainEpoch \/ TrainReturn
    \/ WriteModel

Spec == Init /\ [][Next]_vars

\* build_dataset and the label filter on every list of up to MaxEntries
\* records of DataPool.
InitData ==
    /\ pc = "build" /\ err = "none"
    /\ feedback = NoFile /\ output = NoOutput
    /\ entries \in SeqsUpTo(DataPool, MaxEntries)
    /\ dataset = Unset /\ X = Unset /\ y = Unset /\ X0 = Unset
    /\ means = Unset /\ stds = Unset
    /\ FeatUnset /\ TrainUnset

NextData == BuildDataset \/ FilterRows

SpecData == InitData /\ [][NextData]_vars

\* extract_features on every record of FeatRecordsOf.
InitFeat ==
    /\ pc = "extract" /\ err = "none"
    /\ feedback = NoFile /\ output = NoOutput
    /\ DataUnset /\ TrainUnset
    /\ entry \in FeatRecordsOf({"float", "int", "str"}) /\ entry0 = entry /\ features = Unset

NextFeat == Extract

SpecFeat == InitFeat /\ [][NextFeat]_vars

\* The standardization loop on every matrix of StdMatrices.
InitStd ==
    /\ pc = "standardize" /\ err = "none"
    /\ feedback = NoFile /\ output = NoOutput
    /\ entries = Unset /\ dataset = Unset
    /\ X \in StdMatrices(MaxRows) /\ X0 = X /\ y = [i \in 1..Len(X) |-> i % 2]
    /\ means = Unset /\ stds = Unset
    /\ FeatUnset /\ TrainUnset

NextStd == Standardize

SpecStd == InitStd /\ [][NextStd]_vars

\* train_logistic_regression on every call of TrainCalls and matrix of
\* TrainMatrices.
InitTrain ==
    /\ pc = "train_init" /\ err = "none"
    /\ feedback = NoFile /\ output = NoOutput
    /\ entries = Unset /\ dataset = Unset
    /\ X \in TrainMatrices(MaxRows) /\ X0 = X /\ y = [i \in 1..Len(X) |-> i % 2]
    /\ means = Unset /\ stds = Unset
    /\ FeatUnset
    /\ \E c \in TrainCalls : epochs = c[1] /\ lr = c[2] /\ lr0 = c[2]
    /\ epoch = 0 /\ n_samples = 0 /\ n_features = 0
    /\ weights = Unset /\ bias = 0 /\ grad_w = Unset /\ grad_b = 0
    /\ lrUsed = FZero

NextTrain == TrainInit \/ TrainEpoch \/ TrainReturn

SpecTrain == InitTrain /\ [][NextTrain]_vars

----------------------------------------------------------------------------
(* Claims *)

\* Whether float f holds the integer n.
HoldsInt(f, n) ==
    IF f.e >= 0 THEN f.m * Pow2(f.e) = n ELSE f.m = n * Pow2(-f.e)

Built == pc \notin {"exists", "load", "build"} /\ dataset # Unset

\* C1: build_dataset returns at most one record per id, and the record of an
\* id that feedback records carry is, whole, the last feedback record with
\* that id: label, params and metrics are all that record's, also when the id
\* is a manual seed's.
C1_MergeOverride ==
    Built =>
        /\ \A i, j \in 1..Len(dataset) : dataset[i].id = dataset[j].id => i = j
        /\ \A k \in 1..Len(entries) :
              (\A l \in (k + 1)..Len(entries) : entries[l].id # entries[k].id)
              => /\ \E i \in 1..Len(dataset) : dataset[i].id = entries[k].id
                 /\ \A i \in 1..Len(dataset) :
                       dataset[i].id = entries[k].id =>
                          /\ dataset[i] = entries[k]
                          /\ DOMAIN dataset[i] = DOMAIN entries[k]
                          /\ dataset[i].params = entries[k].params
                          /\ dataset[i].metrics = entries[k].metrics

\* C1 witness: manual-2 is overridden twice with different records, and the
\* merged dataset holds the second.
C1_Witness ==
    /\ Built
    /\ \E k, l \in 1..Len(entries) :
          /\ k < l
          /\ entries[k].id = "manual-2" /\ entries[l].id = "manual-2"
          /\ LabelOf(entries[k]) # LabelOf(entries[l])
          /\ entries[l].params # MANUAL_SEEDS[2].params
          /\ dataset[2] = entries[l]

ManualIdOrder ==
    << "manual-1", "manual-2", "manual-3", "manual-4", "manual-5",
       "manual-6", "manual-7", "manual-8", "manual-9" >>

ManualIdSet == {ManualIdOrder[i] : i \in 1..9}

FirstIndex(es, id) ==
    CHOOSE k \in 1..Len(es) :
        es[k].id = id /\ \A l \in 1..(k - 1) : es[l].id # id

\* C2: the merged list holds manual-1..manual-9 first, in that order, then
\* the feedback ids that are no manual id, each once, in the order of their
\* first appearance in the input.
C2_MergeOrder ==
    Built =>
        LET new == {entries[k].id : k \in 1..Len(entries)} \ ManualIdSet
        IN  /\ Len(dataset) = 9 + Cardinality(new)
            /\ \A i \in 1..9 : dataset[i].id = ManualIdOrder[i]
            /\ \A i \in 10..Len(dataset) : dataset[i].id \in new
            /\ \A i, j \in 10..Len(dataset) :
                  i < j => FirstIndex(entries, dataset[i].id)
                             < FirstIndex(entries, dataset[j].id)

\* C2 witness: ext-2 comes first and again after manual-2; it stays ahead of
\* nothing else and manual-2 stays second.
C2_Witness ==
    /\ Built
    /\ Len(entries) = 3
    /\ entries[1].id = "ext-2" /\ entries[2].id = "manual-2" /\ entries[3].id = "ext-2"
    /\ Len(dataset) = 10
    /\ dataset[2] = entries[2] /\ dataset[10] = entries[3]

\* The indices of the merged records whose label is "special" or "normal".
KeptIndices ==
    {i \in 1..Len(dataset) :
        "label" \in DOMAIN dataset[i]
        /\ (dataset[i].label = [s |-> "special"] \/ dataset[i].label = [s |-> "normal"])}

RankIn(S, i) == Cardinality({j \in S : j <= i})

FeatureOrder ==
    << "activity", "entropy", "stdU", "stdV", "feed", "kill", "threshold",
       "dt", "contrast", "gamma", "invert" >>

\* The mapping of a record a feature is read from, and whether it is there.
SectionOf(name) ==
    IF name \in {"activity", "entropy", "stdU", "stdV"} THEN "metrics" ELSE "params"

HasField(e, name) ==
    SectionOf(name) \in DOMAIN e /\ name \in DOMAIN e[SectionOf(name)]

\* No field extract_features reads holds a str.
NumericRecord(e) ==
    \A p \in 1..10 :
        HasField(e, FeatureOrder[p]) => "s" \notin DOMAIN e[SectionOf(FeatureOrder[p])][FeatureOrder[p]]

\* What the claim says position p holds.
FeatureAsClaimed(e, f, p) ==
    LET name == FeatureOrder[p]
        v == e[SectionOf(name)][name]
    IN  IF name = "invert"
        THEN IF HasField(e, name) /\ v \in {[b |-> TRUE], [i |-> 1]}
             THEN HoldsInt(f, 1) ELSE HoldsInt(f, 0)
        ELSE IF HasField(e, name)
             THEN IF "i" \in DOMAIN v THEN HoldsInt(f, v.i) ELSE f = v
             ELSE IF name \in {"dt", "contrast", "gamma"}
                  THEN HoldsInt(f, 1) ELSE HoldsInt(f, 0)

\* C5: on a record whose fields are numbers, whichever of them are missing,
\* extract_features raises nothing, leaves the record as it was and returns
\* 11 values in the order activity .. invert, each the field's value or its
\* default.
C5_FeatureExtraction ==
    (pc # "extract" /\ entry0 # Unset /\ NumericRecord(entry0)) =>
        /\ pc = "extracted" /\ err = "none"
        /\ entry = entry0
        /\ Len(features) = 11
        /\ \A p \in 1..11 : FeatureAsClaimed(entry0, features[p], p)

\* C5 witness: a record with no metrics and only feed, dt and a true invert.
C5_Witness ==
    /\ pc = "extracted"
    /\ "metrics" \notin DOMAIN entry0
    /\ "params" \in DOMAIN entry0
    /\ DOMAIN entry0.params = {"feed", "dt", "invert"}
    /\ entry0.params.invert = PBool(TRUE)
    /\ features[5] = entry0.params.feed
    /\ features[6] = FZero
    /\ features[11] = FOne

\* The run has passed the test of an empty X.
PastCheck == pc \in {"standardize", "call", "train_init", "train_loop", "trained", "done"}

InvalidLabel(e) ==
    ~("label" \in DOMAIN e /\ (e.label = [s |-> "special"] \/ e.label = [s |-> "normal"]))

\* C3 as claimed: a run whose feedback records are all dropped by the label
\* filter ends with 'No valid data to train on' and never gets past the test.
C3_AsClaimed ==
    (/\ entries # << >>
     /\ \A k \in 1..Len(entries) : "id" \in DOMAIN entries[k] /\ InvalidLabel(entries[k]))
    => ~PastCheck

\* C3 as amended: when every record of the merged dataset (manual seeds not
\* replaced, and feedback records) is dropped by the label filter, the run
\* ends with 'No valid data to train on', before any epoch and with the
\* output file untouched.
C3_EmptyMerged ==
    (/\ dataset # Unset
     /\ \A i \in 1..Len(dataset) : InvalidLabel(dataset[i])
     /\ pc \notin {"filter", "check"})
    => /\ pc = "error" /\ err = "NoValidData"
       /\ epoch = 0 /\ weights = Unset
       /\ output.writes = 0

\* C3 witness: the nine manual seeds are replaced by records without a
\* label, a tenth record is labelled "bogus", and the run has ended in the
\* error.
C3_Witness ==
    /\ pc = "error" /\ err = "NoValidData"
    /\ Len(entries) = 10 /\ Len(dataset) = 10
    /\ \A i \in 1..9 : "label" \notin DOMAIN dataset[i]
    /\ X = << >>

\* A record in which every feature field holds v, in both mappings.
ProbeRecord(name, v) ==
    [id |-> "probe", params |-> [k \in {name} |-> v], metrics |-> [k \in {name} |-> v]]

\* C6: the model a run writes has 11 weights, 11 means and 11 stds, and its
\* features list is activity .. invert in the order in which
\* extract_features fills a row.
C6_ModelShape ==
    pc = "done" =>
        /\ output.exists
        /\ output.model.features = FeatureOrder
        /\ Len(output.model.weights) = 11
        /\ Len(output.model.means) = 11
        /\ Len(output.model.stds) = 11
        /\ \A p \in 1..10 :
              extract_features(ProbeRecord(output.model.features[p], Lit(3, 4)))[p]
                 = Lit(3, 4)
        /\ extract_features(ProbeRecord(output.model.features[11], PBool(TRUE)))[11] = FOne
        /\ extract_features(ProbeRecord(output.model.features[11], PBool(FALSE)))[11] = FZero

\* C6 witness: the run on an empty feedback list, trained on the nine
\* manual seeds, has written its model.
C6_Witness ==
    /\ pc = "done"
    /\ entries = << >>
    /\ Len(X) = 9
    /\ output.writes = 1

\* C7: a run that ends in an error has executed no epoch and has neither
\* created nor modified the output file; the file is written only once the
\* trainer has returned from all of its epochs.
C7_ErrorsLeaveNoOutput ==
    /\ pc = "error" =>
          /\ err \in {"FileNotFound", "JSONDecodeError", "KeyError", "ValueError",
                      "NoValidData"}
          /\ epoch = 0 /\ weights = Unset /\ bias = 0
          /\ output \in OutputsBefore
    /\ output \notin OutputsBefore =>
          /\ pc = "done" /\ err = "none"
          /\ epoch = epochs /\ epochs = 6000
          /\ output.writes = 1

\* C7 witness: a run has ended with 'No valid data to train on' and the
\* output file of an earlier run is still as it was.
C7_Witness ==
    /\ pc = "error" /\ err = "NoValidData"
    /\ output = [exists |-> TRUE, writes |-> 0, model |-> "old"]

\* The decay indices below e: the multiples of 1000 from 1000 on.
DecayIndicesBelow(e) == {i \in {1000 * k : k \in 1..(e \div 1000)} : i < e}

RECURSIVE RateAfter(_, _)
RateAfter(r, k) == IF k = 0 THEN r ELSE FMul(RateAfter(r, k - 1), Lit(9, 10))

\* RateAfter for every initial rate of TrainCalls and every count of decays
\* a run of up to 6000 epochs can reach.
DecayedRates ==
    [r \in {c[2] : c \in TrainCalls} |-> [k \in 0..6 |-> RateAfter(r, k)]]

InLoop == pc \in {"train_loop", "trained"}

\* C8: the rate is multiplied by 0.9 at the epoch indices 1000, 2000, ...
\* and at no other: before epoch index e runs it is the initial rate
\* multiplied by 0.9 once per decay index below e, the update of the last
\* epoch used the rate multiplied once per decay index below that epoch, and
\* a run of E >= 1 epochs ends after (E - 1) \div 1000 decays: 5 for 6000
\* epochs, 4 for 5000.
C8_StepDecay ==
    InLoop =>
        /\ lr = DecayedRates[lr0][Cardinality(DecayIndicesBelow(epoch))]
        /\ epoch > 0 =>
              lrUsed = DecayedRates[lr0][Cardinality(DecayIndicesBelow(epoch - 1))]
        /\ pc = "trained" =>
              /\ epochs >= 1 => lr = DecayedRates[lr0][(epochs - 1) \div 1000]
              /\ epochs = 6000 => lr = DecayedRates[lr0][5]
              /\ epochs = 5000 => lr = DecayedRates[lr0][4]
        /\ \A k \in 0..5 : DecayedRates[lr0][k] # DecayedRates[lr0][k + 1]

\* C8 witness: the epoch of index 1000 has just run: its update used the
\* initial rate, and the rate is now 0.9 times that.
C8_Witness ==
    /\ pc = "train_loop" /\ epoch = 1001
    /\ lrUsed = lr0
    /\ lr = FMul(lr0, Lit(9, 10)) /\ lr # lr0

\* C9: the trainer starts from zero weights and bias, every epoch's update
\* is made from accumulators that were reset and then summed over all N
\* examples, the weights and the bias have had one update per epoch run, and
\* the trainer returns after exactly E epochs.
C9_NoEarlyStop ==
    InLoop =>
        /\ n_samples = Len(X) /\ n_features = Len(X[1])
        /\ Len(weights) = n_features
        /\ epoch >= 0 /\ epoch <= epochs
        /\ bias = epoch
        /\ \A j \in 1..n_features : weights[j] = epoch
        /\ epoch > 0 =>
              /\ grad_b = Len(X)
              /\ Len(grad_w) = n_features
              /\ \A j \in 1..n_features : grad_w[j] = Len(X)
        /\ pc = "trained" => epoch = epochs
        /\ (pc = "train_loop" /\ epoch < epochs) => ENABLED TrainEpoch

\* C9 witness: the default 5000 epochs on three examples have all run and
\* the trainer has returned.
C9_Witness ==
    /\ pc = "trained"
    /\ epochs = 5000 /\ epoch = 5000
    /\ Len(X) = 3
    /\ bias = 5000 /\ grad_b = 3

ConstantColumn(Xs, j) == \A i \in 1..Len(Xs) : Xs[i][j] = Xs[1][j]

\* C10 as claimed: a column that holds the same value in every row gets the
\* std 1.0 and the mean that value, and is 0 in every row afterwards.
C10_AsClaimed ==
    (pc = "call" /\ X0 # Unset) =>
        \A j \in 1..Len(X0[1]) :
            ConstantColumn(X0, j) =>
                /\ HoldsInt(stds[j], 1)
                /\ means[j] = X0[1][j]
                /\ \A i \in 1..Len(X) : X[i][j].m = 0

\* C10 witness: three rows whose first column is 0.2 throughout have been
\* standardized: the mean recorded is not 0.2, the std is not 1.0 and the
\* column is not 0.
C10_Witness ==
    /\ pc = "call"
    /\ Len(X0) = 3
    /\ ConstantColumn(X0, 1)
    /\ X0[1][1] = Lit(2, 10)
    /\ means[1] # X0[1][1]
    /\ stds[1] # FOne
    /\ X[1][1].m # 0

====
